---- MODULE Spec2Model ----
(***************************************************************************)
(* Interrupt-driven SPI transfers (src/src/common.rs).                     *)
(*                                                                         *)
(* Two contexts share an SPIHandler: the task context runs SPI::begin      *)
(* (through SPI::transmit / SPI::write) and the interrupt context runs     *)
(* SPIHandler::handle_interrupt.  The interrupt handler preempts the task  *)
(* and runs to completion, so handle_interrupt is one atomic action while  *)
(* begin is split at every statement an interrupt can come between.        *)
(*                                                                         *)
(* Memory is a map from addresses to bytes; a pointer is an address.  The  *)
(* caller's slice starts at SliceBase.  The peripheral is abstracted by    *)
(* the number of pushed bytes whose interrupt has not been served yet.     *)
(*                                                                         *)
(* Spec: the caller awaits every transfer until it returns.  SpecAbandon:  *)
(* the caller may also drop a suspended transfer and go on.  FairSpec:     *)
(* Spec with a polled task and one interrupt for every pushed byte.        *)
(* The Oneshot comes from the crate async_heapless; its put, take, recv    *)
(* and is_empty follow the documented single-slot contract.                *)
(***************************************************************************)
EXTENDS Integers, Sequences, FiniteSets, TLC

\* ---- bounds of the model ------------------------------------------------
MaxLen == 3         \* longest slice handed to transmit / write
MaxAbandon == 1     \* most abandoned transfers outstanding at a time
MaxSpurious == 1    \* most interrupts no pushed byte has caused, in one run

\* ---- values -------------------------------------------------------------
\* the code never inspects a data byte: two values tell positions apart
Byte == {0, 1}

Error == {"BadFrameFormat", "Overrun", "ModeFault", "BadChecksum", "Uninitialized"}

Null == 0

SliceBase == Null + 1

MemTop == SliceBase + MaxLen

Addr == SliceBase..MemTop

Empty == "Empty"

Ok == "Ok"

NoRet == "NoRet"

\* Buffer::empty()
BufferEmpty == [start |-> Null, end |-> Null, read |-> FALSE]

\* outcomes of SPIHardware::read
ReadByte(b) == [kind |-> "byte", b |-> b, e |-> Ok]

ReadErr(e) == [kind |-> "err", b |-> 0, e |-> e]

ReadNone == [kind |-> "none", b |-> 0, e |-> Ok]

\* read through hardware that was never bound: the call may also trap
ReadFault == [kind |-> "fault", b |-> 0, e |-> Ok]

\* the errors the peripheral is made to report: the code never inspects an
\* error, two values tell one from another
Reported == {"Overrun", "ModeFault"}

\* what the peripheral delivers with the interrupt that follows a push
PushOutcomes == {ReadByte(b) : b \in Byte} \cup {ReadErr(e) : e \in Reported}

\* what read can deliver when no pushed byte has caused the interrupt
AnyOutcomes == PushOutcomes \cup {ReadNone}

\* the same through hardware that was never bound (MaybeUninit::uninit()):
\* whatever the build makes of it
UninitOutcomes == AnyOutcomes \cup {ReadFault}

\* all sequences over S of length 0..n
RECURSIVE SeqsUpTo(_, _)
SeqsUpTo(S, n) ==
    IF n = 0 THEN {<<>>}
    ELSE LET shorter == SeqsUpTo(S, n - 1)
         IN  shorter \cup {Append(s, x) : s \in {t \in shorter : Len(t) = n - 1}, x \in S}

Slices == SeqsUpTo(Byte, MaxLen)

\* ---- memory access through a raw pointer --------------------------------
\* *p as a value: outside the modelled memory the read yields any byte
Deref(m, p) == IF p \in Addr THEN {m[p]} ELSE Byte

\* *p = x: outside the modelled memory the store is not tracked
Store(m, p, x) == IF p \in Addr THEN [m EXCEPT ![p] = x] ELSE m

\* memory after the caller placed slice xs at SliceBase
Place(xs) == [a \in Addr |-> IF a - SliceBase < Len(xs) THEN xs[a - SliceBase + 1] ELSE 0]

\* the slice of length n at SliceBase as memory m holds it
SliceOf(m, n) == [i \in 1..n |-> m[SliceBase + i - 1]]

VARIABLES
    hardware,   \* SPIHandler.hardware: "uninit" or "bound"
    buf,        \* SPIHandler.buf: the installed Buffer descriptor
    result,     \* SPIHandler.result: the Oneshot slot, Empty or a Result
    mem,        \* memory holding the caller's slice
    pending,    \* pushed bytes whose interrupt has not been served
    pc,         \* position of the task in SPI::begin
    arg,        \* the Buffer argument of the running begin
    ret,        \* value the last transmit / write returned, NoRet while it runs
    debug,      \* cfg!(debug_assertions) of the build
    panicked,   \* a panic has stopped the program
    pastEnd,    \* the handler has used the cursor at or past end; the run
                \* (the cursor walking on through memory) is followed no further
    orig,       \* history: slice contents when the transfer was requested
    rx,         \* history: bytes read from the peripheral in this transfer
    tx,         \* history: bytes pushed to the peripheral in this transfer
    nsteps,     \* history: handle_interrupt invocations in this transfer
    nputs,      \* history: values put into the slot in this transfer
    hwerr,      \* history: error the peripheral reported in this transfer
    putval,     \* history: the value last put in this transfer, Empty if none
    inFlight,   \* history: a first byte was pushed and no put followed yet
    abandons,   \* history: abandoned transfers that may still be outstanding
    lastRead,   \* history: what the last handle_interrupt got from read
                \* ("nopoll" if it did not get to read, "" before any)
    nspur       \* history: interrupts so far that no pushed byte has caused

hist == <<orig, rx, tx, nsteps, nputs, hwerr, putval, inFlight, abandons, lastRead, nspur>>

vars == <<hardware, buf, result, mem, pending, pc, arg, ret, debug, panicked, pastEnd,
          orig, rx, tx, nsteps, nputs, hwerr, putval, inFlight, abandons,
          lastRead, nspur>>

\* the byte histories are kept while no abandoned transfer is outstanding:
\* with one, "this transfer" no longer names one transfer
Log(h, x) == IF abandons = 0 THEN Append(h, x) ELSE h

\* the program runs until it panics; a run is followed until the cursor
\* has been used past end
Running == ~panicked /\ ~pastEnd

\* ---- SPIHandler::new ----------------------------------------------------
Init ==
    /\ hardware = "uninit"
    /\ buf = BufferEmpty
    /\ result = Empty
    /\ mem = Place(<<>>)
    /\ pending = 0
    /\ pc = "noinit"
    /\ arg = BufferEmpty
    /\ ret = NoRet
    /\ debug \in BOOLEAN
    /\ panicked = FALSE
    /\ pastEnd = FALSE
    /\ orig = <<>>
    /\ rx = <<>>
    /\ tx = <<>>
    /\ nsteps = 0
    /\ nputs = 0
    /\ hwerr = Ok
    /\ putval = Empty
    /\ inFlight = FALSE
    /\ abandons = 0
    /\ lastRead = ""
    /\ nspur = 0

\* ---- SPIHandler::init ---------------------------------------------------
init ==
    /\ Running
    /\ pc = "noinit"
    /\ hardware' = "bound"
    /\ pc' = "idle"
    /\ UNCHANGED <<buf, result, mem, pending, arg, ret, debug, panicked, pastEnd>>
    /\ UNCHANGED hist

\* ---- Oneshot<Result<(), Error>> (crate async_heapless) -------------------
OneshotIsEmpty(slot) == slot = Empty

\* put: stores the value unless the slot is occupied
OneshotPut(slot, v) == IF slot = Empty THEN v ELSE slot

\* a successful put wakes the task suspended in recv
OneshotWake(p, slot) == IF p = "suspended" /\ slot = Empty THEN "woken" ELSE p

\* ---- SPI::transmit / SPI::write -----------------------------------------
\* the Buffer both build from the slice: start, start + len, read
SliceBuffer(xs, rd) == [start |-> SliceBase, end |-> SliceBase + Len(xs), read |-> rd]

Call(xs, rd) ==
    /\ Running
    /\ pc = "idle"
    /\ abandons' = IF pending = 0 THEN 0 ELSE abandons
    /\ arg' = SliceBuffer(xs, rd)
    /\ mem' = Place(xs)
    /\ pc' = "begin"
    /\ orig' = IF abandons' = 0 THEN xs ELSE <<>>
    /\ rx' = <<>>
    /\ tx' = <<>>
    /\ nsteps' = 0
    /\ nputs' = 0
    /\ hwerr' = Ok
    /\ putval' = Empty
    /\ ret' = NoRet
    /\ lastRead' = ""
    /\ UNCHANGED <<hardware, buf, result, pending, debug, panicked, pastEnd, inFlight, nspur>>

transmit == \E xs \in Slices : Call(xs, TRUE)

write == \E xs \in Slices : Call(xs, FALSE)

\* ---- SPI::begin ---------------------------------------------------------
\* a slip: <= for ==
IsEmptyTransferLe(b) == b.start <= b.end

\* a slip: the test for a null pointer instead of an empty region
IsEmptyTransferNull(b) == b.start = Null

\* line 115: the empty-transfer test
IsEmptyTransfer(b) == b.start = b.end

\* a slip: the slot is drained after the first byte was pushed
BeginNextLateTake(p) ==
    CASE p = "begin" -> "recv"
      [] p = "recv" -> "install"
      [] p = "install" -> "push"
      [] p = "push" -> "take"
      [] p = "take" -> "await"

\* a slip: the first byte is pushed before the buffer is installed
BeginNextPushFirst(p) ==
    CASE p = "begin" -> "take"
      [] p = "take" -> "recv"
      [] p = "recv" -> "push"
      [] p = "push" -> "install"
      [] p = "install" -> "await"

\* a slip: begin returns after the push without awaiting the result
BeginNextNoAwait(p) ==
    CASE p = "begin" -> "take"
      [] p = "take" -> "recv"
      [] p = "recv" -> "install"
      [] p = "install" -> "push"
      [] p = "push" -> "done"

\* lines 119-132: the order of begin's statements for a non-empty buffer
BeginNext(p) ==
    CASE p = "begin" -> "take"
      [] p = "take" -> "recv"
      [] p = "recv" -> "install"
      [] p = "install" -> "push"
      [] p = "push" -> "await"

\* lines 115-117: return Ok(()) at once for an empty buffer
begin_check ==
    /\ Running
    /\ pc = "begin"
    /\ IF IsEmptyTransfer(arg)
       THEN pc' = "done" /\ ret' = Ok
       ELSE pc' = BeginNext(pc) /\ ret' = ret
    /\ UNCHANGED <<hardware, buf, result, mem, pending, arg, debug, panicked, pastEnd>>
    /\ UNCHANGED hist

\* line 120: self.handler.result.take()
begin_take ==
    /\ Running
    /\ pc = "take"
    /\ result' = Empty
    /\ pc' = BeginNext(pc)
    /\ UNCHANGED <<hardware, buf, mem, pending, arg, ret, debug, panicked, pastEnd>>
    /\ UNCHANGED hist

\* line 121: self.handler.result.recv() creates the receive future
begin_recv ==
    /\ Running
    /\ pc = "recv"
    /\ pc' = BeginNext(pc)
    /\ UNCHANGED <<hardware, buf, result, mem, pending, arg, ret, debug, panicked, pastEnd>>
    /\ UNCHANGED hist

\* lines 124-126: *self.handler.buf.get() = buf
begin_install ==
    /\ Running
    /\ pc = "install"
    /\ buf' = arg
    /\ pc' = BeginNext(pc)
    /\ UNCHANGED <<hardware, result, mem, pending, arg, ret, debug, panicked, pastEnd>>
    /\ UNCHANGED hist

\* line 130: hardware.write(*start)
begin_push ==
    /\ Running
    /\ pc = "push"
    /\ \E x \in Deref(mem, arg.start) : tx' = Log(tx, x)
    /\ pending' = pending + 1
    /\ inFlight' = TRUE
    /\ pc' = BeginNext(pc)
    /\ UNCHANGED <<hardware, buf, result, mem, arg, ret, debug, panicked, pastEnd>>
    /\ UNCHANGED <<orig, rx, nsteps, nputs, hwerr, putval, abandons, lastRead, nspur>>

\* line 132: recv.await polled: returns the value and leaves the slot
\* empty, or suspends the task until a put wakes it
begin_await ==
    /\ Running
    /\ pc \in {"await", "woken"}
    /\ IF OneshotIsEmpty(result)
       THEN pc' = "suspended" /\ UNCHANGED <<result, ret>>
       ELSE pc' = "done" /\ ret' = result /\ result' = Empty
    /\ UNCHANGED <<hardware, buf, mem, pending, arg, debug, panicked, pastEnd>>
    /\ UNCHANGED hist

\* transmit / write has returned ret: the caller takes the value and its
\* borrow of the slice ends (the memory is no longer the slice: its
\* contents and the histories of the transfer are forgotten)
Return ==
    /\ Running
    /\ pc = "done"
    /\ pc' = "idle"
    /\ arg' = BufferEmpty
    /\ mem' = Place(<<>>)
    /\ ret' = NoRet
    /\ orig' = <<>>
    /\ rx' = <<>>
    /\ tx' = <<>>
    /\ nsteps' = 0
    /\ nputs' = 0
    /\ hwerr' = Ok
    /\ putval' = Empty
    /\ lastRead' = ""
    /\ UNCHANGED <<hardware, buf, result, pending, debug, panicked, pastEnd, inFlight, abandons, nspur>>

\* the caller drops the future of a suspended transmit / write
Abandon ==
    /\ Running
    /\ pc \in {"suspended", "woken"}
    /\ abandons < MaxAbandon
    /\ abandons' = abandons + 1
    /\ pc' = "idle"
    /\ orig' = <<>>
    /\ rx' = <<>>
    /\ tx' = <<>>
    /\ UNCHANGED <<hardware, buf, result, mem, pending, arg, ret, debug, panicked, pastEnd>>
    /\ UNCHANGED <<nsteps, nputs, hwerr, putval, inFlight, lastRead, nspur>>

\* ---- SPIHandler::handle_interrupt ---------------------------------------
\* a slip: the received byte is stored whatever buf.read says
StoreRxAlways(m, b, x) == Store(m, b.start, x)

\* a slip: the received byte is stored one position ahead of the cursor
StoreRxAhead(m, b, x) == IF b.read THEN Store(m, b.start + 1, x) ELSE m

\* lines 98-100: if buf.read { *buf.start = b }
StoreRx(m, b, x) == IF b.read THEN Store(m, b.start, x) ELSE m

\* a slip: the cursor moves by two
AdvanceTwo(b) == [b EXCEPT !.start = b.start + 2]

\* line 101: buf.start = buf.start.wrapping_add(1)
Advance(b) == [b EXCEPT !.start = b.start + 1]

\* a slip: the position at end is still taken for one to send
MoreToSendLe(b) == b.start <= b.end

\* a slip: the handler always pushes on and never puts Ok(())
MoreToSendAlways(b) == TRUE

\* line 102: buf.start != buf.end
MoreToSend(b) == b.start # b.end

\* a slip: every error is reported as Overrun
ErrResultOverrun(e) == "Overrun"

\* line 92: the value put for a reported error
ErrResult(e) == e

\* lines 97-103 dereference the cursor although it is not below end
PastEnd(r) ==
    /\ ~(debug /\ ~OneshotIsEmpty(result))
    /\ r.kind = "byte"
    /\ ~(debug /\ buf.start = buf.end)
    /\ buf.start >= buf.end

\* one interrupt cause fewer: reading the data register clears it
Served(n) == IF n > 0 THEN n - 1 ELSE 0

\* read reports no data and the handler returns as if nothing had happened
NoDataIgnored == FALSE

\* line 95: Ok(None) => panic!
NoDataPanics == TRUE

\* the whole handler, r the outcome of hardware.read()
handle_interrupt(r) ==
    /\ nsteps' = nsteps + 1
    /\ UNCHANGED <<hardware, arg, ret, debug, orig, abandons>>
    /\ IF debug /\ ~OneshotIsEmpty(result)
       THEN \* line 87: debug_assert!(self.result.is_empty())
            /\ panicked' = TRUE
            /\ lastRead' = "nopoll"
            /\ UNCHANGED <<buf, result, mem, pending, pc>>
            /\ UNCHANGED <<rx, tx, nputs, hwerr, putval, inFlight>>
       ELSE /\ lastRead' = r.kind
            /\ CASE r.kind = "fault" ->
                 \* line 88 or 90 traps on hardware that was never bound
                 /\ panicked' = TRUE
                 /\ UNCHANGED <<buf, result, mem, pending, pc>>
                 /\ UNCHANGED <<rx, tx, nputs, hwerr, putval, inFlight>>
              [] r.kind = "err" ->
                 \* lines 91-93
                 /\ result' = OneshotPut(result, ErrResult(r.e))
                 /\ pc' = OneshotWake(pc, result)
                 /\ pending' = Served(pending)
                 /\ nputs' = nputs + 1
                 /\ hwerr' = r.e
                 /\ putval' = ErrResult(r.e)
                 /\ inFlight' = FALSE
                 /\ UNCHANGED <<buf, mem, panicked, rx, tx>>
              [] r.kind = "none" ->
                 \* line 95
                 /\ panicked' = NoDataPanics
                 /\ UNCHANGED <<buf, result, mem, pending, pc>>
                 /\ UNCHANGED <<rx, tx, nputs, hwerr, putval, inFlight>>
              [] r.kind = "byte" ->
                 IF debug /\ buf.start = buf.end
                 THEN \* line 97: debug_assert!(buf.start != buf.end)
                      /\ panicked' = TRUE
                      /\ pending' = Served(pending)
                      /\ rx' = Log(rx, r.b)
                      /\ UNCHANGED <<buf, result, mem, pc>>
                      /\ UNCHANGED <<tx, nputs, hwerr, putval, inFlight>>
                 ELSE \* lines 98-106
                      LET m1 == StoreRx(mem, buf, r.b)
                          b1 == Advance(buf)
                      IN  /\ mem' = m1
                          /\ buf' = b1
                          /\ rx' = Log(rx, r.b)
                          /\ UNCHANGED <<panicked, hwerr>>
                          /\ IF MoreToSend(b1)
                             THEN /\ \E x \in Deref(m1, b1.start) : tx' = Log(tx, x)
                                  /\ pending' = Served(pending) + 1
                                  /\ UNCHANGED <<result, pc, nputs, putval, inFlight>>
                             ELSE /\ result' = OneshotPut(result, Ok)
                                  /\ pc' = OneshotWake(pc, result)
                                  /\ pending' = Served(pending)
                                  /\ nputs' = nputs + 1
                                  /\ putval' = Ok
                                  /\ inFlight' = FALSE
                                  /\ UNCHANGED tx

\* the SPI1 interrupt: raised once for every pushed byte, with a received
\* byte or an error (src/src/stm32l4x6.rs, rxneie and errie)
Interrupt ==
    /\ Running
    /\ pending > 0
    /\ UNCHANGED nspur
    /\ \E r \in PushOutcomes : handle_interrupt(r) /\ pastEnd' = PastEnd(r)

\* what read delivers to a handle_interrupt that no pushed byte has caused:
\* anything while no transfer is requested, and otherwise the case followed
\* is the one where it finds no data
SpuriousOutcomes ==
    IF pc \in {"noinit", "idle"} /\ pending = 0
    THEN IF hardware = "bound" THEN AnyOutcomes ELSE UninitOutcomes
    ELSE {ReadNone}

\* handle_interrupt entered although no pushed byte has caused it (the
\* unsafe fn called by hand, or the interrupt raised for another reason),
\* possibly before init has bound the hardware; a run is followed until
\* such a call has moved the cursor of a buffer no transfer owns
Spurious ==
    /\ Running
    /\ nspur < MaxSpurious
    /\ nspur' = nspur + 1
    /\ \E r \in SpuriousOutcomes :
           /\ handle_interrupt(r)
           /\ pastEnd' = (PastEnd(r) \/ buf' # buf)

\* ---- specifications -----------------------------------------------------
\* every transfer is awaited until it returns
Next ==
    \/ init
    \/ transmit
    \/ write
    \/ begin_check
    \/ begin_take
    \/ begin_recv
    \/ begin_install
    \/ begin_push
    \/ begin_await
    \/ Return
    \/ Interrupt

Spec == Init /\ [][Next]_vars

\* the caller may also drop a suspended transfer and start another
NextAbandon == Next \/ Abandon

SpecAbandon == Init /\ [][NextAbandon]_vars

\* every transfer is awaited, but handle_interrupt is also entered when no
\* pushed byte has caused it
NextSpurious == Next \/ Spurious

SpecSpurious == Init /\ [][NextSpurious]_vars

\* the executor polls a runnable task and the peripheral raises the
\* interrupt of every pushed byte
Fairness ==
    /\ WF_vars(begin_check)
    /\ WF_vars(begin_take)
    /\ WF_vars(begin_recv)
    /\ WF_vars(begin_install)
    /\ WF_vars(begin_push)
    /\ WF_vars(begin_await)
    /\ WF_vars(Interrupt)

FairSpec == Init /\ [][Next]_vars /\ Fairness

TypeOK ==
    /\ hardware \in {"uninit", "bound"}
    /\ result \in {Empty, Ok} \cup Error
    /\ pending \in 0..(MaxAbandon + 1)
    /\ pc \in {"noinit", "idle", "begin", "take", "recv", "install", "push",
               "await", "suspended", "woken", "done"}
    /\ ret \in {NoRet, Ok} \cup Error
    /\ panicked \in BOOLEAN
    /\ lastRead \in {"", "nopoll", "fault", "err", "none", "byte"}
    /\ nspur \in 0..MaxSpurious

\* ---- properties ---------------------------------------------------------
\* the Handle is about to write the Buffer descriptor or use the Capability
HandleAccess == pc \in {"install", "push"}

\* begin has pushed and its receive has not returned
Awaiting == pc \in {"await", "suspended", "woken"}

\* a non-empty transfer has pushed its first byte (it awaits or has returned)
Started == Len(orig) > 0 /\ (Awaiting \/ pc = "done")

\* this step is an invocation of handle_interrupt
StepperRuns == nsteps' = nsteps + 1

C2_OwnershipByOccupancy ==
    /\ pending > 0 => OneshotIsEmpty(result)
    /\ HandleAccess => ~OneshotIsEmpty(result)

C4_EmptyTransfer ==
    [][(pc = "begin" /\ arg.start = arg.end /\ pc' # pc)
        => /\ pc' = "done"
           /\ ret' = Ok
           /\ UNCHANGED <<hardware, buf, result, mem, pending, panicked>>
           /\ UNCHANGED <<tx, rx, nsteps, nputs, inFlight>>]_vars

C4_Witness ==
    /\ pc = "done"
    /\ arg.start = arg.end
    /\ ret = Ok
    /\ ~OneshotIsEmpty(result)
    /\ pending = 0

\* C5: byte-count invariant.  In a non-empty transfer the cursor is the
\* start plus the bytes received, every invocation of the Byte-Stepper
\* received one byte or the error, Ok(()) has been put exactly when the
\* cursor equals end, and a transfer of N bytes that returns Ok(()) took
\* exactly N invocations.
C5_ByteCount ==
    Started =>
        /\ buf.start = arg.start + Len(rx)
        /\ nsteps = Len(rx) + (IF hwerr = Ok THEN 0 ELSE 1)
        /\ (result = Ok \/ ret = Ok) <=> (buf.start = buf.end)
        /\ pc = "done" /\ ret = Ok => nsteps = Len(orig)

C5_Witness == pc = "done" /\ ret = Ok /\ Len(orig) = MaxLen /\ nsteps = MaxLen

\* C6: overwrite law.  After a successful transmit of N bytes the slice
\* holds the N received bytes in order; after a successful write it holds
\* what it held before.
C6_Overwrite ==
    pc = "done" /\ ret = Ok /\ Len(orig) > 0 =>
        /\ Len(rx) = Len(orig)
        /\ SliceOf(mem, Len(orig)) = (IF arg.read THEN rx ELSE orig)

C6_Witness ==
    /\ pc = "done"
    /\ ret = Ok
    /\ arg.read
    /\ Len(orig) = MaxLen
    /\ \A i \in 1..MaxLen : rx[i] # orig[i]
    /\ rx[1] # rx[2]

\* C7: error short-circuit.  If the Capability reports an error on the k-th
\* poll the transfer returns exactly that error, and for transmit the first
\* k-1 bytes of the slice are the received ones and the rest are untouched;
\* for write the slice is untouched.  An error is returned only if reported.
C7_ErrorShortCircuit ==
    /\ pc = "done" /\ Len(orig) > 0 /\ hwerr # Ok =>
        /\ ret = hwerr
        /\ nsteps = Len(rx) + 1
        /\ nsteps <= Len(orig)
        /\ SliceOf(mem, Len(orig)) =
             (IF arg.read
              THEN rx \o SubSeq(orig, nsteps, Len(orig))
              ELSE orig)
    /\ pc = "done" /\ ret \in Error => hwerr = ret

C7_Witness ==
    /\ pc = "done"
    /\ ret = "ModeFault"
    /\ arg.read
    /\ Len(orig) = MaxLen
    /\ nsteps = 2
    /\ rx[1] # orig[1]

\* C8: single in-flight.  begin never drains and arms the slot, installs a
\* buffer or pushes a first byte while an earlier transfer is in flight, and
\* never two pushed bytes are outstanding.
C8_SingleInFlight ==
    /\ pc \in {"recv", "install", "push"} => ~inFlight
    /\ pending <= 1

\* C9: completion.  Every non-empty transfer (begin has passed the empty
\* test) eventually returns to the caller with a result.
C9_Completion == (pc = "take") ~> (pc = "done" /\ ret # NoRet)

\* the final result was put before the task polled the receive
C9_Witness ==
    /\ pc = "await"
    /\ ~OneshotIsEmpty(result)
    /\ Len(orig) = MaxLen
    /\ nsteps = MaxLen

\* C10: exactly-once hand-off.  In a non-empty transfer at most one value is
\* put; from the put until the receive returns the slot holds that value;
\* the transfer returns after exactly one put, with that value, and leaves
\* the slot empty.
C10_ExactlyOnce ==
    Started =>
        /\ nputs <= 1
        /\ Awaiting /\ nputs = 1 => result = putval
        /\ Awaiting /\ nputs = 0 => OneshotIsEmpty(result)
        /\ pc = "done" => nputs = 1 /\ ret = putval /\ OneshotIsEmpty(result)

C10_Witness ==
    /\ pc = "done"
    /\ Len(orig) = MaxLen
    /\ ret = "Overrun"
    /\ nputs = 1
    /\ OneshotIsEmpty(result)

C12_DrainBeforeArm ==
    /\ pc \in {"recv", "push"} => OneshotIsEmpty(result)
    /\ pc = "done" /\ arg.start # arg.end => ~inFlight

\* a handle_interrupt step whose read reports an error
ErrorStep == StepperRuns /\ lastRead' = "err"

\* C13: a handle_interrupt whose read reports the error e puts Err(e), with
\* e as reported, into the channel, pushes nothing and leaves the cursor
\* and every byte of the buffer as they were; nothing pushed is outstanding
\* afterwards, so handle_interrupt is not entered again for that transfer
C13_ErrorEndsStepping ==
    /\ [][ErrorStep =>
            /\ hwerr' \in Error /\ result' = hwerr' /\ nputs' = nputs + 1
            /\ pending' = 0 /\ ~inFlight'
            /\ UNCHANGED <<buf, mem, tx, rx>>]_vars
    /\ [][StepperRuns => hwerr = Ok]_vars

C13_Witness == pc = "woken" /\ result = "ModeFault" /\ lastRead = "err" /\ nsteps = 2 /\ Len(tx) = 2 /\ Len(orig) = MaxLen

\* the hardware is bound and no transfer is in flight: nothing pushed is
\* outstanding, the channel is empty and the installed buffer is exhausted
\* (never installed, or left over from a finished transfer)
NoTransfer ==
    /\ hardware = "bound"
    /\ pending = 0 /\ ~inFlight
    /\ OneshotIsEmpty(result)
    /\ buf.start = buf.end

\* C14: a handle_interrupt entered while no transfer is in flight is
\* rejected by an assertion or panic whatever read delivers (a byte, no
\* data or an error): it puts nothing, does not move the cursor and does
\* not write through it
C14_SpuriousRejected ==
    [][StepperRuns /\ NoTransfer =>
          /\ panicked'
          /\ UNCHANGED <<result, buf, mem, nputs>>]_vars

\* C15: a handle_interrupt whose read reports that no data is available
\* panics: it puts nothing, leaves the cursor and the buffer as they were
\* and pushes nothing, and the program does not go on to retry the read or
\* to deliver a result
C15_NoDataFatal ==
    /\ [][StepperRuns /\ lastRead' = "none" =>
            /\ panicked'
            /\ UNCHANGED <<result, buf, mem, pending, pc, ret>>
            /\ UNCHANGED <<tx, rx, nputs, hwerr>>]_vars
    /\ [][lastRead = "none" => UNCHANGED vars]_vars

C15_Witness == lastRead = "none" /\ panicked /\ inFlight /\ pc = "suspended" /\ Len(tx) = 2 /\ ~debug

\* C16: before init there is no SPI handle, so no write or transmit has
\* run and nothing was pushed; and a handle_interrupt entered before init
\* stops without reading from the unbound hardware and without putting a
\* value into the channel
C16_UseBeforeInit ==
    /\ [](hardware = "uninit" => pc = "noinit" /\ pending = 0 /\ tx = <<>>)
    /\ [][StepperRuns /\ hardware = "uninit" =>
            /\ panicked'
            /\ lastRead' = "nopoll"
            /\ UNCHANGED result]_vars

\* C17: the bytes pushed for a transfer are the bytes the buffer held when
\* the transfer was requested, in index order and each once: one by begin
\* and one more for every byte received while more remain. A transfer of
\* length N that returns Ok has pushed all N (N - 1 of them pushed by
\* handle_interrupt), transmit included, and one that fails on the k-th
\* read has pushed the first k
C17_TransmittedSequence ==
    Started =>
        /\ tx = SubSeq(orig, 1, Len(tx))
        /\ Len(tx) = (IF Len(rx) < Len(orig) THEN Len(rx) + 1 ELSE Len(orig))
        /\ pc = "done" /\ ret = Ok => tx = orig /\ nsteps = Len(orig)
        /\ pc = "done" /\ ret \in Error => Len(tx) = nsteps

C17_Witness == pc = "done" /\ ret = Ok /\ arg.read /\ Len(orig) = MaxLen /\ tx = orig /\ rx[1] # orig[2] /\ rx[2] # orig[3]

\* begin has installed the buffer of the transfer it was called for
Installed == pc = "push" \/ Started

====
